---- MODULE Spec2Model ----
(***************************************************************************)
(* State-machine model of stock_analyzer.py: the StockAnalyzer class       *)
(* (tool session, schema adapter, validator, orchestrator, report          *)
(* synthesizer, report store) and the top-level main() pipeline.           *)
(*                                                                         *)
(* Conventions                                                             *)
(*   - a Python str that the code slices or normalises (the ticker) is a   *)
(*     sequence of one-character strings; other texts are TLA+ strings;    *)
(*   - a Python dict is a function whose domain is its key set;            *)
(*   - Python's None is the value None below;                              *)
(*   - an f-string / concatenation is the tuple of its parts.              *)
(***************************************************************************)
EXTENDS Integers, Sequences, FiniteSets, TLC

(***************************************************************************)
(* Bounds                                                                  *)
(***************************************************************************)
\* longest list of tool calls the generative backend proposes in one response
MaxCalls == 2
\* longest list of tool calls proposed to each run of a compared pair of runs
MaxPairCalls == 1
\* longest list of tool calls proposed to each of two concurrent runs
MaxConcCalls == 1

\* longest symbol validate_symbol is called with
MaxSymbolLen == 3

\* number of connect and disconnect calls made on one analyzer
MaxOps == 3

\* longest descriptor list create_openai_tools_schema is called with
MaxDescriptors == 3

\* the clock readings of the saves run from 0 to MaxClock ticks
MaxClock == 5

\* resolution of the clock: ticks in one second
TicksPerSecond == 2

(***************************************************************************)
(* Values                                                                  *)
(***************************************************************************)
None == "<None>"

\* Python truthiness of an Optional[str]
Truthy(x) == x # None /\ x # ""

EmptyDict == [k \in {} |-> None]

\* dict.update(): the keys of e override those of d
Update(d, e) == [k \in (DOMAIN d) \cup (DOMAIN e) |-> IF k \in DOMAIN e THEN e[k] ELSE d[k]]

\* d[k] = v
Put(d, k, v) == [x \in (DOMAIN d) \cup {k} |-> IF x = k THEN v ELSE d[x]]

\* dict.get(k, default)
Get(d, k, default) == IF k \in DOMAIN d THEN d[k] ELSE default

(***************************************************************************)
(* Ticker strings: str.upper() and str.strip()                             *)
(***************************************************************************)
Chars == {" ", "a", "A", "z", "Z"}

UpperChar(c) == CASE c = "a" -> "A"
                  [] c = "z" -> "Z"
                  [] OTHER   -> c

upper(s) == [i \in 1..Len(s) |-> UpperChar(s[i])]

RECURSIVE lstrip(_)
lstrip(s) == IF s # <<>> /\ Head(s) = " " THEN lstrip(Tail(s)) ELSE s

RECURSIVE rstrip(_)
rstrip(s) == IF s # <<>> /\ s[Len(s)] = " " THEN rstrip(SubSeq(s, 1, Len(s) - 1)) ELSE s

strip(s) == rstrip(lstrip(s))

\* the command-line arguments the pipeline is run with
ArgSymbols == { <<>>, <<" ">>, <<" ", "z">> }

\* the symbols analyze_with_openai is called with directly
RunSymbols == { <<"A">>, <<"Z">> }

(***************************************************************************)
(* The tool catalogue and the five target tools                            *)
(***************************************************************************)
target_tools == << "analyze_bollinger_zscore_performance",
                   "analyze_bollinger_fibonacci_performance",
                   "analyze_macd_donchian_performance",
                   "analyze_connors_zscore_performance",
                   "analyze_dual_ma_strategy" >>

Range(s) == { s[i] : i \in 1..Len(s) }

TargetToolNames == Range(target_tools)

\* a tool of the companion server that is not one of the five
OtherTool == "get_stock_price"

\* the key_mapping table of analyze_with_openai
key_mapping == [ analyze_bollinger_zscore_performance    |-> "bollinger_zscore",
                 analyze_bollinger_fibonacci_performance |-> "bollinger_fibonacci",
                 analyze_macd_donchian_performance       |-> "macd_donchian",
                 analyze_connors_zscore_performance      |-> "connors_zscore",
                 analyze_dual_ma_strategy                |-> "dual_ma" ]

\* the StrategyIdentifier set of the data model
StrategyIdentifiers == { key_mapping[n] : n \in DOMAIN key_mapping }

\* a tool descriptor as list_tools returns it
Descriptor(n) == [name |-> n, description |-> IF n = OtherTool THEN "" ELSE "Test tool"]

\* the catalogues the companion server may answer list_tools with
Catalogs == { <<>>,
              << Descriptor(OtherTool) >>,
              << Descriptor(OtherTool),
                 Descriptor("analyze_dual_ma_strategy"),
                 Descriptor("analyze_bollinger_zscore_performance") >> }

\* the catalogue of a server that offers the five target tools
FullCatalog == [i \in 1..Len(target_tools) |-> Descriptor(target_tools[i])]

RECURSIVE SelectSeqBy(_, _)
\* the subsequence of s whose elements' names are in the set names
SelectSeqBy(s, names) ==
    IF s = <<>> THEN <<>>
    ELSE IF Head(s).name \in names
         THEN <<Head(s)>> \o SelectSeqBy(Tail(s), names)
         ELSE SelectSeqBy(Tail(s), names)

\* one entry of the function-calling schema
OpenAITool(tool) ==
    [ type     |-> "function",
      function |-> [ name        |-> tool.name,
                     description |-> IF tool.description # ""
                                     THEN <<tool.description>>
                                     ELSE <<"Execute ", tool.name, " analysis">>,
                     parameters  |-> [ type       |-> "object",
                                       properties |-> [symbol |-> [type |-> "string",
                                                                   description |-> "Stock ticker symbol"]],
                                       required   |-> <<"symbol">> ] ] ]

\* a schema that passes every listed tool through
create_openai_tools_schema_unfiltered(mcp_tools) ==
    [i \in 1..Len(mcp_tools) |-> OpenAITool(mcp_tools[i])]

create_openai_tools_schema(mcp_tools) ==
    LET kept == SelectSeqBy(mcp_tools, TargetToolNames)
    IN  [i \in 1..Len(kept) |-> OpenAITool(kept[i])]

(***************************************************************************)
(* Argument payloads of a proposed tool call and their evaluation          *)
(***************************************************************************)
\* the argument texts the backend attaches to a proposed call
Payloads == { "", "{'symbol': 'Z', 'period': '5d'}", "{\"adjusted\": true}" }

\* eval(arguments): a dict, or an exception (a JSON literal such as true is
\* an undefined name to the Python evaluator)
eval(arguments) ==
    CASE arguments = "{'symbol': 'Z', 'period': '5d'}"
             -> [raises |-> FALSE, value |-> [symbol |-> <<"Z">>, period |-> "5d"]]
      [] arguments = "{\"adjusted\": true}"
             -> [raises |-> TRUE, value |-> "NameError"]
      [] OTHER
             -> [raises |-> TRUE, value |-> "SyntaxError"]

\* tool_args that fall back to the empty dict when the payload has no value
ToolArgs_lenient(arguments) ==
    IF arguments # "" /\ arguments # None /\ ~eval(arguments).raises
    THEN eval(arguments)
    ELSE [raises |-> FALSE, value |-> EmptyDict]

\* tool_args of one loop iteration: eval(arguments) if arguments else {}
ToolArgs(arguments) ==
    IF arguments # "" /\ arguments # None
    THEN eval(arguments)
    ELSE [raises |-> FALSE, value |-> EmptyDict]

\* the fixed parameters the orchestrator attaches per tool name (the
\* fibonacci levels are in thousandths)
CanonicalParameters(tool_name) ==
    CASE tool_name = "analyze_bollinger_zscore_performance"
             -> [period |-> "1y", window |-> 20]
      [] tool_name = "analyze_bollinger_fibonacci_performance"
             -> [period |-> "1y", window |-> 20, num_std |-> 2,
                 fibonacci_levels |-> <<0, 236, 382, 500, 618, 786, 1000>>]
      [] tool_name = "analyze_macd_donchian_performance"
             -> [period |-> "1y",
                 macd_params |-> [fast_period |-> 12, slow_period |-> 26, signal_period |-> 9],
                 donchian_window |-> 20]
      [] tool_name = "analyze_connors_zscore_performance"
             -> [period |-> "1y",
                 connors_params |-> [rsi_period |-> 3, streak_period |-> 2, rank_period |-> 100],
                 zscore_window |-> 20]
      [] tool_name = "analyze_dual_ma_strategy"
             -> [period |-> "1y", short_period |-> 50, long_period |-> 200, ma_type |-> "EMA"]
      [] OTHER
             -> EmptyDict

\* a parameter bag that lets the proposed arguments override the fixed ones
tool_params_trusting(tool_name, tool_args, symbol) ==
    Update(Update([symbol |-> symbol], CanonicalParameters(tool_name)), tool_args)

\* tool_params of one loop iteration
tool_params(tool_name, tool_args, symbol) ==
    Update([symbol |-> symbol], CanonicalParameters(tool_name))


(***************************************************************************)
(* Exceptions                                                              *)
(***************************************************************************)
\* raised by the libraries the orchestrator calls, all subclasses of Exception
ErrorKinds == {"APIConnectionError", "IndexError", "NameError", "SyntaxError", "AttributeError",
               "RuntimeError", "OSError", "TypeError"}

\* BaseException subclasses that are not subclasses of Exception
InterruptKinds == {"CancelledError", "KeyboardInterrupt"}

\* an except clause that names one library error only
except_connection_error_only(e) == e = "APIConnectionError"

\* `except Exception` of analyze_with_openai
except_Exception(e) == e \in ErrorKinds

(***************************************************************************)
(* State                                                                   *)
(***************************************************************************)
Runs == {1, 2}

VARIABLES
    \* environment
    api_key,            \* OPENAI_API_KEY is set
    argv_symbol,        \* the symbol argument of the command line
    catalog,            \* the tool catalogue of the companion server
    clock,              \* datetime.now(), in ticks
    files,              \* the files under analysis/: path -> what was written
    \* the analyzer object
    session,            \* self.session: None or "ClientSession"
    exit_stack,         \* contexts entered on self.exit_stack, oldest first
    \* main()
    mpc,                \* position of main()
    connected,          \* what connect_to_mcp_server returned: "unset", "True", "False"
    validated,          \* what validate_symbol returned: "unset", "True", "False"
    analysis_data,      \* main's analysis_data
    report,             \* main's report
    filepath,           \* main's filepath
    exit_code,          \* value main returns: 0 or 1, and -1 until it returns
    escaped,            \* the exception that escapes main, None when none does
    printed,            \* history: the messages main printed
    called,             \* history: components and external operations used so far
    closed,             \* history: number of calls of disconnect_from_mcp_server
    \* one run of analyze_with_openai, per run
    rpc,                \* position of the run
    symbol,             \* its symbol argument
    mcp_tools,          \* what get_available_tools returned to it
    openai_tools,       \* its schema
    tool_calls,         \* message.tool_calls of the backend response
    content,            \* message.content of the backend response
    idx,                \* 1-based position of the for loop in tool_calls
    analysis_results,   \* its local analysis_results dict
    retval,             \* the dict it returned
    exc,                \* the exception that escaped it
    thrown,             \* history: the exceptions raised inside its try block
    sent,               \* history: (name, parameters) passed to session.call_tool
    answers,            \* history: what execute_mcp_tool returned, per sent call
    requests,           \* history: requests made to the generative backend
    \* one operation of the analyzer called on its own
    upc,                \* position of the caller
    arg,                \* the argument it passes
    out,                \* what the operation returned
    log                 \* history: calls of single operations and what they met

envVars  == <<api_key, argv_symbol, catalog, clock>>
objVars  == <<session, exit_stack>>
mainVars == <<mpc, connected, validated, analysis_data, report, filepath, exit_code, escaped,
              printed, called, closed>>
runVars  == <<rpc, symbol, mcp_tools, openai_tools, tool_calls, content, idx, analysis_results,
              retval, exc, thrown, sent, answers, requests>>
unitVars == <<upc, arg, out, log>>
vars     == <<envVars, files, objVars, mainVars, runVars, unitVars>>

NoResult == [pending |-> TRUE]

\* no operation is called on its own
NoUnitCall ==
    /\ upc = "unused"
    /\ arg = <<>>
    /\ out = NoResult
    /\ log = <<>>

IdleRuns ==
    /\ rpc = [r \in Runs |-> "idle"]
    /\ symbol = [r \in Runs |-> <<>>]
    /\ mcp_tools = [r \in Runs |-> <<>>]
    /\ openai_tools = [r \in Runs |-> <<>>]
    /\ tool_calls = [r \in Runs |-> <<>>]
    /\ content = [r \in Runs |-> None]
    /\ idx = [r \in Runs |-> 0]
    /\ analysis_results = [r \in Runs |-> EmptyDict]
    /\ retval = [r \in Runs |-> NoResult]
    /\ exc = [r \in Runs |-> None]
    /\ thrown = [r \in Runs |-> <<>>]
    /\ sent = [r \in Runs |-> <<>>]
    /\ answers = [r \in Runs |-> <<>>]
    /\ requests = [r \in Runs |-> <<>>]

(***************************************************************************)
(* analyze_with_openai, one run r                                          *)
(***************************************************************************)
\* the call enters the try block and awaits get_available_tools()
EnterOrchestration(r, sym) ==
    /\ rpc' = [rpc EXCEPT ![r] = "await_list"]
    /\ symbol' = [symbol EXCEPT ![r] = sym]
    /\ mcp_tools' = [mcp_tools EXCEPT ![r] = <<>>]
    /\ openai_tools' = [openai_tools EXCEPT ![r] = <<>>]
    /\ tool_calls' = [tool_calls EXCEPT ![r] = <<>>]
    /\ content' = [content EXCEPT ![r] = None]
    /\ idx' = [idx EXCEPT ![r] = 0]
    /\ analysis_results' = [analysis_results EXCEPT ![r] = EmptyDict]
    /\ retval' = [retval EXCEPT ![r] = NoResult]
    /\ exc' = [exc EXCEPT ![r] = None]
    /\ UNCHANGED <<thrown, sent, answers, requests>>

\* an exception e raised inside the try block: the except clause turns it
\* into an error dict, anything it does not catch leaves the coroutine
Throw(r, e) ==
    /\ thrown' = [thrown EXCEPT ![r] = Append(@, e)]
    /\ IF except_Exception(e)
       THEN /\ retval' = [retval EXCEPT ![r] = [error |-> <<"OpenAI analysis failed: ", e>>]]
            /\ rpc' = [rpc EXCEPT ![r] = "returned"]
            /\ exc' = exc
       ELSE /\ exc' = [exc EXCEPT ![r] = e]
            /\ rpc' = [rpc EXCEPT ![r] = "raised"]
            /\ retval' = retval

\* what session.list_tools() may do
ListOutcomes == {"raises", "no_response", "tools"}

\* a listing whose error is not turned into the empty list
get_available_tools_unguarded(outcome) ==
    IF outcome = "no_response" THEN <<>> ELSE catalog

\* get_available_tools(): the tools of the response, [] on no response or error
get_available_tools(outcome) ==
    IF session = None \/ outcome = "raises" THEN <<>>
    ELSE IF outcome = "tools" THEN catalog
    ELSE <<>>

\* get_available_tools returns; the schema is built and checked for emptiness
ListToolsReturns(r) ==
    /\ rpc[r] = "await_list"
    /\ \E outcome \in ListOutcomes :
         LET tools  == get_available_tools(outcome)
             schema == create_openai_tools_schema(tools)
         IN  /\ mcp_tools' = [mcp_tools EXCEPT ![r] = tools]
             /\ openai_tools' = [openai_tools EXCEPT ![r] = schema]
             /\ IF schema = <<>>
                THEN /\ retval' = [retval EXCEPT ![r] = [error |-> <<"No analysis tools available">>]]
                     /\ rpc' = [rpc EXCEPT ![r] = "returned"]
                ELSE /\ rpc' = [rpc EXCEPT ![r] = "request"]
                     /\ retval' = retval
    /\ called' = called \cup (IF session = None THEN {} ELSE {"list_tools"})
    /\ UNCHANGED <<files, unitVars>>
    /\ UNCHANGED <<envVars, objVars, mpc, connected, validated, analysis_data, report,
                   filepath, exit_code, escaped, printed, closed>>
    /\ UNCHANGED <<symbol, tool_calls, content, idx, analysis_results, exc, thrown, sent,
                   answers, requests>>

\* the proposals the backend may put in one response to run r: calls of the
\* functions of the schema it was given, or of a name outside of it, each with
\* an argument text
ProposedCall(r) ==
    [ name      : { openai_tools[r][i].function.name : i \in 1..Len(openai_tools[r]) } \cup {OtherTool},
      arguments : Payloads ]

ProposedCalls(r, n) == UNION { [1..k -> ProposedCall(r)] : k \in 0..n }

Contents == {None, "Analysis summary"}

\* the request of the orchestration call
OrchestrationRequest(r) ==
    [ prompt_symbol |-> symbol[r],
      tools         |-> openai_tools[r],
      tool_choice   |-> "auto" ]

\* chat.completions.create() and the reading of response.choices[0].message,
\* for a response of at most n tool calls
CallBackendWith(r, n) ==
    /\ rpc[r] = "request"
    /\ requests' = [requests EXCEPT ![r] = Append(@, OrchestrationRequest(r))]
    /\ called' = called \cup {"openai"}
    /\ \/ \E e \in {"APIConnectionError", "IndexError"} :
             /\ Throw(r, e)
             /\ UNCHANGED <<tool_calls, content, idx, analysis_results>>
       \/ \E calls \in ProposedCalls(r, n), text \in Contents :
             /\ tool_calls' = [tool_calls EXCEPT ![r] = calls]
             /\ content' = [content EXCEPT ![r] = text]
             /\ analysis_results' = [analysis_results EXCEPT ![r] = EmptyDict]
             /\ idx' = [idx EXCEPT ![r] = 1]
             /\ rpc' = [rpc EXCEPT ![r] = "loop"]
             /\ UNCHANGED <<retval, exc, thrown>>
    /\ UNCHANGED <<files, unitVars>>
    /\ UNCHANGED <<envVars, objVars, mpc, connected, validated, analysis_data, report,
                   filepath, exit_code, escaped, printed, closed>>
    /\ UNCHANGED <<symbol, mcp_tools, openai_tools, sent, answers>>

CallBackend(r) == CallBackendWith(r, MaxCalls)

\* one pass of the for loop up to the await of execute_mcp_tool
NextToolCall(r) ==
    /\ rpc[r] = "loop"
    /\ idx[r] <= Len(tool_calls[r])
    /\ LET tool_call == tool_calls[r][idx[r]]
           tool_name == tool_call.name
           tool_args == ToolArgs(tool_call.arguments)
       IN  IF tool_args.raises
           THEN /\ Throw(r, tool_args.value)
                /\ UNCHANGED <<sent, called>>
           ELSE /\ sent' = [sent EXCEPT ![r] =
                              Append(@, [name |-> tool_name,
                                         parameters |-> tool_params(tool_name, tool_args.value, symbol[r])])]
                /\ called' = called \cup (IF session = None THEN {} ELSE {"call_tool"})
                /\ rpc' = [rpc EXCEPT ![r] = "await_call"]
                /\ UNCHANGED <<retval, exc, thrown>>
    /\ UNCHANGED <<files, unitVars>>
    /\ UNCHANGED <<envVars, objVars, mpc, connected, validated, analysis_data, report,
                   filepath, exit_code, escaped, printed, closed>>
    /\ UNCHANGED <<symbol, mcp_tools, openai_tools, tool_calls, content, idx, analysis_results,
                   answers, requests>>

\* what session.call_tool() may do: raise, or answer with a content list
Texts == {"", "r1", "r2"}

ToolOutcomes == {[raises |-> TRUE, content |-> <<>>], [raises |-> FALSE, content |-> <<>>]}
                \cup { [raises |-> FALSE, content |-> <<t>>] : t \in Texts }

\* execute_mcp_tool(): the first text of the content, None on error or no content
execute_mcp_tool(outcome) ==
    IF session = None \/ outcome.raises THEN None
    ELSE IF outcome.content # <<>> THEN outcome.content[1]
    ELSE None

\* the analysis_results key of a tool name
analysis_key(tool_name) == Get(key_mapping, tool_name, tool_name)

\* `if result:` and the assignment into analysis_results
store_result(results, tool_name, result) ==
    IF Truthy(result) THEN Put(results, analysis_key(tool_name), result) ELSE results

\* a loop body that collects into one dict shared by all runs of the analyzer
ToolCallReturns_shared_results(r) ==
    /\ rpc[r] = "await_call"
    /\ \E outcome \in ToolOutcomes :
         LET result == execute_mcp_tool(outcome)
         IN  /\ answers' = [answers EXCEPT ![r] = Append(@, result)]
             /\ analysis_results' = [analysis_results EXCEPT ![1] =
                                       store_result(@, tool_calls[r][idx[r]].name, result)]
    /\ idx' = [idx EXCEPT ![r] = @ + 1]
    /\ rpc' = [rpc EXCEPT ![r] = "loop"]
    /\ UNCHANGED <<files, unitVars>>
    /\ UNCHANGED <<envVars, objVars, mainVars>>
    /\ UNCHANGED <<symbol, mcp_tools, openai_tools, tool_calls, content, retval, exc, thrown,
                   sent, requests>>

\* execute_mcp_tool returns and the loop body finishes
ToolCallReturns(r) ==
    /\ rpc[r] = "await_call"
    /\ \E outcome \in ToolOutcomes :
         LET result == execute_mcp_tool(outcome)
         IN  /\ answers' = [answers EXCEPT ![r] = Append(@, result)]
             /\ analysis_results' = [analysis_results EXCEPT ![r] =
                                       store_result(@, tool_calls[r][idx[r]].name, result)]
    /\ idx' = [idx EXCEPT ![r] = @ + 1]
    /\ rpc' = [rpc EXCEPT ![r] = "loop"]
    /\ UNCHANGED <<files, unitVars>>
    /\ UNCHANGED <<envVars, objVars, mainVars>>
    /\ UNCHANGED <<symbol, mcp_tools, openai_tools, tool_calls, content, retval, exc, thrown,
                   sent, requests>>

\* a result that is a bundle even when nothing was collected
orchestration_result_always_bundle(sym, results, text) ==
    [ symbol           |-> sym,
      analyses         |-> results,
      total_strategies |-> Cardinality(DOMAIN results),
      openai_summary   |-> IF Truthy(text) THEN text ELSE "Analysis completed via tool calls" ]

\* the dict returned after the loop (its timestamp field, the wall-clock time
\* of the return, is left out)
orchestration_result(sym, results, text) ==
    IF DOMAIN results = {}
    THEN [error |-> <<"No analysis results obtained from OpenAI tool calls">>]
    ELSE [ symbol           |-> sym,
           analyses         |-> results,
           total_strategies |-> Cardinality(DOMAIN results),
           openai_summary   |-> IF Truthy(text) THEN text ELSE "Analysis completed via tool calls" ]

\* the loop is exhausted: the run returns
ReturnResult(r) ==
    /\ rpc[r] = "loop"
    /\ idx[r] > Len(tool_calls[r])
    /\ retval' = [retval EXCEPT ![r] = orchestration_result(symbol[r], analysis_results[r], content[r])]
    /\ rpc' = [rpc EXCEPT ![r] = "returned"]
    /\ UNCHANGED <<files, unitVars>>
    /\ UNCHANGED <<envVars, objVars, mainVars>>
    /\ UNCHANGED <<symbol, mcp_tools, openai_tools, tool_calls, content, idx, analysis_results,
                   exc, thrown, sent, answers, requests>>

\* the task is cancelled while it is suspended on the tool session, or the
\* user interrupts the blocking backend call
Interrupted(r) ==
    /\ \/ rpc[r] \in {"await_list", "await_call"} /\ Throw(r, "CancelledError")
       \/ rpc[r] = "request" /\ Throw(r, "KeyboardInterrupt")
    /\ UNCHANGED <<files, unitVars>>
    /\ UNCHANGED <<envVars, objVars, mainVars>>
    /\ UNCHANGED <<symbol, mcp_tools, openai_tools, tool_calls, content, idx, analysis_results,
                   sent, answers, requests>>


(***************************************************************************)
(* The tool session: connect and disconnect                                *)
(***************************************************************************)
\* how far a connect attempt gets
ConnectOutcomes == {"server_missing", "stdio_client_fails", "ClientSession_fails",
                    "initialize_fails", "initialized"}

\* the error a connect attempt meets: none when the server file is missing
\* (a plain `return False`) and when the handshake completes
connect_error(outcome) ==
    CASE outcome = "stdio_client_fails"  -> "OSError"
      [] outcome = "ClientSession_fails" -> "RuntimeError"
      [] outcome = "initialize_fails"    -> "RuntimeError"
      [] OTHER                           -> None

\* `except Exception` of connect_to_mcp_server: the exception that escapes
connect_raises(outcome) ==
    IF connect_error(outcome) = None \/ except_Exception(connect_error(outcome))
    THEN None
    ELSE connect_error(outcome)

\* a connect that returns True once the session object exists
connect_to_mcp_server_without_handshake(outcome) ==
    CASE outcome \in {"server_missing", "stdio_client_fails"}
             -> [result |-> FALSE, raises |-> connect_raises(outcome),
                 session |-> session, exit_stack |-> exit_stack]
      [] outcome = "ClientSession_fails"
             -> [result |-> FALSE, raises |-> connect_raises(outcome),
                 session |-> session, exit_stack |-> Append(exit_stack, "stdio_client")]
      [] OTHER
             -> [result |-> TRUE, raises |-> None,
                 session |-> "ClientSession",
                 exit_stack |-> exit_stack \o <<"stdio_client", "ClientSession">>]

\* connect_to_mcp_server(): the value returned, the exception that escapes,
\* and self.session and the exit stack as the attempt leaves them
connect_to_mcp_server(outcome) ==
    CASE outcome \in {"server_missing", "stdio_client_fails"}
             -> [result |-> FALSE, raises |-> connect_raises(outcome),
                 session |-> session, exit_stack |-> exit_stack]
      [] outcome = "ClientSession_fails"
             -> [result |-> FALSE, raises |-> connect_raises(outcome),
                 session |-> session, exit_stack |-> Append(exit_stack, "stdio_client")]
      [] outcome = "initialize_fails"
             -> [result |-> FALSE, raises |-> connect_raises(outcome),
                 session |-> "ClientSession",
                 exit_stack |-> exit_stack \o <<"stdio_client", "ClientSession">>]
      [] outcome = "initialized"
             -> [result |-> TRUE, raises |-> None,
                 session |-> "ClientSession",
                 exit_stack |-> exit_stack \o <<"stdio_client", "ClientSession">>]

\* what exit_stack.aclose() raises: nothing, an error of a context's exit,
\* or the cancellation of the task that awaits it
AcloseOutcomes == {None, "RuntimeError", "CancelledError"}

\* a disconnect that clears the session only when aclose() returned
disconnect_from_mcp_server_without_finally(raised) ==
    [raises |-> IF raised = None \/ except_Exception(raised) THEN None ELSE raised,
     session |-> IF raised = None THEN None ELSE session,
     exit_stack |-> <<>>]

\* disconnect_from_mcp_server(): the exception that escapes it, and
\* self.session and the exit stack as it leaves them; aclose() pops every
\* context whether or not an exit raised, and the finally clause clears the
\* session
disconnect_from_mcp_server(raised) ==
    [raises |-> IF raised = None \/ except_Exception(raised) THEN None ELSE raised,
     session |-> None,
     exit_stack |-> <<>>]

(***************************************************************************)
(* validate_symbol                                                         *)
(***************************************************************************)
\* what ticker.history(period="5d") may do
LookupOutcomes == {"rows", "empty", "raises"}

\* the symbol argument None
NoneSymbol == <<None>>

\* a test of the empty string only
IsBlank_empty_only(sym) == sym = NoneSymbol \/ sym = <<>>

\* `not symbol or not symbol.strip()`
IsBlank(sym) == sym = NoneSymbol \/ sym = <<>> \/ strip(sym) = <<>>

\* a lookup of the symbol as it was passed
lookup_ticker_as_passed(sym) == sym

\* `yf.Ticker(symbol.strip().upper())`
lookup_ticker(sym) == upper(strip(sym))

\* validate_symbol() with what it does on the way: the exception that
\* escapes it, the value it returns and the lookups it made
validate_symbol_call(sym, lookup) ==
    IF IsBlank(sym)
    THEN [raises |-> None, result |-> FALSE, lookups |-> <<>>]
    ELSE LET made == <<[ticker |-> lookup_ticker(sym), period |-> "5d", outcome |-> lookup]>>
         IN  IF lookup = "raises"
             THEN [raises |-> IF except_Exception("OSError") THEN None ELSE "OSError",
                   result |-> FALSE, lookups |-> made]
             ELSE [raises |-> None, result |-> lookup = "rows", lookups |-> made]

\* validate_symbol(): False for a blank symbol, else True exactly when the
\* lookup returns rows
validate_symbol(sym, lookup) == validate_symbol_call(sym, lookup).result

(***************************************************************************)
(* main()                                                                  *)
(***************************************************************************)
\* the environment check and the construction of the analyzer
MainStart ==
    /\ mpc = "start"
    /\ IF ~api_key
       THEN /\ exit_code' = 1
            /\ UNCHANGED escaped
            /\ printed' = printed \cup {"Error: OpenAI API key not found"}
            /\ mpc' = "exited"
       ELSE /\ mpc' = "connect"
            /\ UNCHANGED <<exit_code, escaped, printed>>
    /\ session' = None
    /\ exit_stack' = <<>>
    /\ UNCHANGED <<files, unitVars>>
    /\ UNCHANGED <<envVars, connected, validated, analysis_data, report, filepath, called, closed>>
    /\ UNCHANGED runVars

\* a main that goes on to the analysis whatever connect returned
Connect_ignoring_result ==
    /\ mpc = "connect"
    /\ \E outcome \in ConnectOutcomes :
         LET c == connect_to_mcp_server(outcome)
         IN  /\ session' = c.session
             /\ exit_stack' = c.exit_stack
             /\ connected' = IF c.result THEN "True" ELSE "False"
    /\ mpc' = "analyze"
    /\ printed' = printed \cup {"Starting AI-powered technical analysis"}
    /\ called' = called \cup {"connect"}
    /\ UNCHANGED <<files, unitVars>>
    /\ UNCHANGED <<envVars, validated, analysis_data, report, filepath, exit_code, escaped, closed>>
    /\ UNCHANGED runVars

\* `if not await analyzer.connect_to_mcp_server(): return 1`
Connect ==
    /\ mpc = "connect"
    /\ \E outcome \in ConnectOutcomes :
         LET c == connect_to_mcp_server(outcome)
         IN  /\ session' = c.session
             /\ exit_stack' = c.exit_stack
             /\ connected' = IF c.result THEN "True" ELSE "False"
             /\ IF c.result
                THEN /\ mpc' = "analyze"
                     /\ printed' = printed \cup {"Starting AI-powered technical analysis"}
                     /\ UNCHANGED <<exit_code, escaped>>
                ELSE /\ mpc' = "finally"
                     /\ printed' = printed \cup {"Error: Could not connect to finance tools MCP server"}
                     /\ exit_code' = 1
                     /\ UNCHANGED escaped
    /\ called' = called \cup {"connect"}
    /\ UNCHANGED <<files, unitVars>>
    /\ UNCHANGED <<envVars, validated, analysis_data, report, filepath, closed>>
    /\ UNCHANGED runVars

\* `except KeyboardInterrupt` and `except Exception` of main: whether one of
\* the clauses handles e
main_except(e) == e = "KeyboardInterrupt" \/ except_Exception(e)

\* the message the clause prints
main_except_message(e) ==
    IF e = "KeyboardInterrupt" THEN {"Analysis interrupted by user"}
    ELSE IF except_Exception(e) THEN {"Unexpected error"}
    ELSE {}

\* the user interrupts main while it connects, synthesizes or saves: the
\* connect attempt is left wherever it had got to
MainInterrupted ==
    /\ mpc \in {"connect", "report", "save"}
    /\ \E e \in InterruptKinds, outcome \in ConnectOutcomes :
         /\ e = "CancelledError" => mpc = "connect"
         /\ IF mpc = "connect"
            THEN /\ session' = connect_to_mcp_server(outcome).session
                 /\ exit_stack' = connect_to_mcp_server(outcome).exit_stack
            ELSE /\ outcome = "initialized"
                 /\ UNCHANGED objVars
         /\ IF main_except(e)
            THEN exit_code' = 1 /\ UNCHANGED escaped
            ELSE escaped' = e /\ UNCHANGED exit_code
         /\ printed' = printed \cup main_except_message(e)
    /\ mpc' = "finally"
    /\ UNCHANGED <<files, unitVars>>
    /\ UNCHANGED <<envVars, connected, validated, analysis_data, report, filepath, called, closed>>
    /\ UNCHANGED runVars

\* analyze_stock() up to its return or to the await of analyze_with_openai
AnalyzeStock ==
    /\ mpc = "analyze"
    /\ LET sym == strip(upper(argv_symbol))
       IN  \E lookup \in LookupOutcomes :
             LET valid == validate_symbol(sym, lookup)
             IN  /\ validated' = IF valid THEN "True" ELSE "False"
                 /\ called' = called \cup {"validate_symbol"}
                                     \cup (IF IsBlank(sym) THEN {} ELSE {"yfinance"})
                                     \cup (IF valid THEN {"analyze_with_openai"} ELSE {})
                 /\ IF valid
                    THEN /\ EnterOrchestration(1, sym)
                         /\ mpc' = "analyzing"
                         /\ UNCHANGED analysis_data
                    ELSE /\ analysis_data' = [error |-> <<"Invalid or non-existent symbol: ", sym>>]
                         /\ mpc' = "check"
                         /\ UNCHANGED runVars
    /\ UNCHANGED <<files, unitVars>>
    /\ UNCHANGED <<envVars, objVars, connected, report, filepath, exit_code, escaped, printed, closed>>

\* analyze_with_openai returned: analyze_stock returns its value
AnalysisReturns ==
    /\ mpc = "analyzing"
    /\ rpc[1] = "returned"
    /\ analysis_data' = retval[1]
    /\ mpc' = "check"
    /\ UNCHANGED <<files, unitVars>>
    /\ UNCHANGED <<envVars, objVars, connected, validated, report, filepath, exit_code, escaped, printed,
                   called, closed>>
    /\ UNCHANGED runVars

\* analyze_with_openai raised: analyze_stock has no handler and raises too;
\* main has `except KeyboardInterrupt` and `except Exception`
AnalysisRaises ==
    /\ mpc = "analyzing"
    /\ rpc[1] = "raised"
    /\ IF main_except(exc[1])
       THEN exit_code' = 1 /\ UNCHANGED escaped
       ELSE escaped' = exc[1] /\ UNCHANGED exit_code
    /\ printed' = printed \cup main_except_message(exc[1])
    /\ mpc' = "finally"
    /\ UNCHANGED <<files, unitVars>>
    /\ UNCHANGED <<envVars, objVars, connected, validated, analysis_data, report, filepath,
                   called, closed>>
    /\ UNCHANGED runVars

\* a main whose error return leaves without the finally clause
CheckAnalysis_returning_directly ==
    /\ mpc = "check"
    /\ IF "error" \in DOMAIN analysis_data
       THEN /\ exit_code' = 1
            /\ UNCHANGED escaped
            /\ printed' = printed \cup {"Analysis failed"}
            /\ mpc' = "exited"
       ELSE /\ mpc' = "report"
            /\ UNCHANGED <<exit_code, escaped, printed>>
    /\ UNCHANGED <<files, unitVars>>
    /\ UNCHANGED <<envVars, objVars, connected, validated, analysis_data, report, filepath,
                   called, closed>>
    /\ UNCHANGED runVars

\* `if "error" in analysis_data: return 1`
CheckAnalysis ==
    /\ mpc = "check"
    /\ IF "error" \in DOMAIN analysis_data
       THEN /\ exit_code' = 1
            /\ UNCHANGED escaped
            /\ printed' = printed \cup {"Analysis failed"}
            /\ mpc' = "finally"
       ELSE /\ mpc' = "report"
            /\ UNCHANGED <<exit_code, escaped, printed>>
    /\ UNCHANGED <<files, unitVars>>
    /\ UNCHANGED <<envVars, objVars, connected, validated, analysis_data, report, filepath,
                   called, closed>>
    /\ UNCHANGED runVars

\* what the current-price lookup of the synthesizer may do
PriceOutcomes == {"raises", "quote"}

\* the price lookup inside its own try with a bare `except:`
price_info(price) == IF price = "raises" THEN "N/A" ELSE "$1.00"

\* what the synthesis request may do: raise, or answer with message.content
ReportOutcomes == {[raises |-> TRUE, content |-> None]}
                  \cup { [raises |-> FALSE, content |-> c] : c \in {None, "", "# Report"} }

\* generate_final_report_with_ai(): the content of the response, or the
\* fallback document when the call raised
generate_final_report_with_ai(sym, outcome) ==
    IF outcome.raises
    THEN [none |-> FALSE,
          parts |-> <<"# Technical Analysis Report: ", sym,
                      "\n\nError generating comprehensive report: ", "APIConnectionError">>]
    ELSE IF outcome.content = None
         THEN [none |-> TRUE, parts |-> <<>>]
         ELSE [none |-> FALSE, parts |-> IF outcome.content = "" THEN <<>> ELSE <<outcome.content>>]

\* generate_markdown_report(): the price lookup, the synthesis request and
\* the document returned
GenerateReport ==
    /\ mpc = "report"
    /\ \E price \in PriceOutcomes, outcome \in ReportOutcomes :
         /\ report' = generate_final_report_with_ai(analysis_data.symbol, outcome)
         /\ log' = Append(log, [op         |-> "generate_final_report_with_ai",
                                symbol     |-> analysis_data.symbol,
                                price_info |-> price_info(price),
                                backend    |-> outcome])
    /\ called' = called \cup {"generate_markdown_report", "yfinance", "openai"}
    /\ mpc' = "save"
    /\ UNCHANGED <<files, upc, arg, out>>
    /\ UNCHANGED <<envVars, objVars, connected, validated, analysis_data, filepath, exit_code,
                   escaped, printed, closed>>
    /\ UNCHANGED runVars

\* what the file system may do in save_report
SaveOutcomes == {"mkdir_raises", "open_raises", "write_raises", "written"}

\* a timestamp format that stops at the minute
strftime_minutes(now) == now \div (60 * TicksPerSecond)

\* `strftime("%Y%m%d_%H%M%S")`: the clock cut to whole seconds
strftime(now) == now \div TicksPerSecond

\* `analysis_dir / f"Technical_analysis_{symbol}_{timestamp}.md"`
report_path(sym, now) == <<"analysis/Technical_analysis_", sym, "_", strftime(now), ".md">>

\* save_report(): whether it raises, the path it returns ("" as <<>>) and
\* the files it leaves. The mkdir is outside the try block, so its failure
\* raises; open(filepath, 'w') creates or truncates the file before a
\* failing write (f.write(None) included) is caught
save_report(rep, sym, outcome, now, fs) ==
    LET filepath_ == report_path(sym, now)
    IN  CASE outcome = "mkdir_raises"
                 -> [raises |-> TRUE, path |-> <<>>, files |-> fs]
          [] outcome = "open_raises"
                 -> [raises |-> FALSE, path |-> <<>>, files |-> fs]
          [] outcome = "write_raises" \/ rep.none
                 -> [raises |-> FALSE, path |-> <<>>, files |-> Put(fs, filepath_, <<>>)]
          [] OTHER
                 -> [raises |-> FALSE, path |-> filepath_, files |-> Put(fs, filepath_, rep.parts)]

\* a main that reports success whatever save_report returned
SaveReport_ignoring_path ==
    /\ mpc = "save"
    /\ \E outcome \in SaveOutcomes :
         LET saved == save_report(report, analysis_data.symbol, outcome, clock, files)
         IN  /\ filepath' = saved.path
             /\ files' = saved.files
             /\ exit_code' = IF saved.raises THEN 1 ELSE 0
             /\ UNCHANGED escaped
             /\ printed' = printed \cup
                    { IF saved.raises THEN "Unexpected error"
                      ELSE "AI-powered analysis completed successfully!" }
    /\ called' = called \cup {"save_report"}
    /\ mpc' = "finally"
    /\ UNCHANGED unitVars
    /\ UNCHANGED <<envVars, objVars, connected, validated, analysis_data, report, closed>>
    /\ UNCHANGED runVars

\* save_report and the branch on its path
SaveReport ==
    /\ mpc = "save"
    /\ \E outcome \in SaveOutcomes :
         LET saved == save_report(report, analysis_data.symbol, outcome, clock, files)
         IN  /\ filepath' = saved.path
             /\ files' = saved.files
             /\ exit_code' = IF saved.raises \/ saved.path = <<>> THEN 1 ELSE 0
             /\ UNCHANGED escaped
             /\ printed' = printed \cup
                    { IF saved.raises THEN "Unexpected error"
                      ELSE IF saved.path = <<>> THEN "Error saving report"
                      ELSE "AI-powered analysis completed successfully!" }
    /\ called' = called \cup {"save_report"}
    /\ mpc' = "finally"
    /\ UNCHANGED unitVars
    /\ UNCHANGED <<envVars, objVars, connected, validated, analysis_data, report, closed>>
    /\ UNCHANGED runVars

\* the finally clause: disconnect_from_mcp_server(), then main returns what
\* it was returning, unless the disconnect itself raised
Disconnect ==
    /\ mpc = "finally"
    /\ \E raised \in AcloseOutcomes :
         LET d == disconnect_from_mcp_server(raised)
         IN  /\ session' = d.session
             /\ exit_stack' = d.exit_stack
             /\ escaped' = IF d.raises = None THEN escaped ELSE d.raises
    /\ closed' = closed + 1
    /\ called' = called \cup {"disconnect"}
    /\ mpc' = "exited"
    /\ UNCHANGED <<files, unitVars>>
    /\ UNCHANGED <<envVars, connected, validated, analysis_data, report, filepath, exit_code,
                   printed>>
    /\ UNCHANGED runVars

\* `sys.exit(asyncio.run(main()))`: the value main returned, or the status
\* of an interpreter that ends on an uncaught exception
process_exit_code == IF escaped # None THEN 1 ELSE exit_code

(***************************************************************************)
(* The pipeline: one process run of main()                                 *)
(***************************************************************************)
Init ==
    /\ api_key \in BOOLEAN
    /\ argv_symbol \in ArgSymbols
    /\ catalog \in Catalogs
    /\ clock = 0
    /\ files = EmptyDict
    /\ NoUnitCall
    /\ session = None
    /\ exit_stack = <<>>
    /\ mpc = "start"
    /\ connected = "unset"
    /\ validated = "unset"
    /\ analysis_data = NoResult
    /\ report = [none |-> TRUE, parts |-> <<>>]
    /\ filepath = <<>>
    /\ exit_code = -1
    /\ escaped = None
    /\ printed = {}
    /\ called = {}
    /\ closed = 0
    /\ IdleRuns

Next ==
    \/ MainStart
    \/ Connect
    \/ MainInterrupted
    \/ AnalyzeStock
    \/ ListToolsReturns(1)
    \/ CallBackend(1)
    \/ NextToolCall(1)
    \/ ToolCallReturns(1)
    \/ ReturnResult(1)
    \/ Interrupted(1)
    \/ AnalysisReturns
    \/ AnalysisRaises
    \/ CheckAnalysis
    \/ GenerateReport
    \/ SaveReport
    \/ Disconnect

Spec == Init /\ [][Next]_vars

(***************************************************************************)
(* The pipeline with a companion server that never answers the handshake.  *)
(* connect_to_mcp_server awaits session.initialize() without a timeout, so *)
(* the await never returns; the backend client is called without a timeout *)
(* argument as well, and its own expiry is the raising outcome of          *)
(* CallBackendWith and GenerateReport.  Every step the program can take is *)
(* eventually taken.                                                       *)
(***************************************************************************)
\* `await self.session.initialize()` never returns
HandshakeStalls ==
    /\ mpc = "connect"
    /\ session' = "ClientSession"
    /\ exit_stack' = exit_stack \o <<"stdio_client", "ClientSession">>
    /\ called' = called \cup {"connect"}
    /\ mpc' = "connecting"
    /\ UNCHANGED <<files, unitVars>>
    /\ UNCHANGED <<envVars, connected, validated, analysis_data, report, filepath, exit_code,
                   escaped, printed, closed>>
    /\ UNCHANGED runVars

NextLive ==
    \/ Next
    \/ HandshakeStalls

\* the positions of main and of the runs: every step changes one of them
pcs == <<mpc, rpc>>

SpecLive == Init /\ [][NextLive]_vars /\ WF_pcs(NextLive)

(***************************************************************************)
(* A pair of runs of analyze_with_openai on one connected analyzer, the    *)
(* second made after the first returned, in the same environment: the same *)
(* symbol, the same schema, the same answers of the tool session, and      *)
(* backend responses that propose the same tool names and narrative and    *)
(* differ in the argument payloads only.                                   *)
(***************************************************************************)
Names(calls) == [i \in 1..Len(calls) |-> calls[i].name]

InitPair ==
    /\ api_key = TRUE
    /\ argv_symbol = <<>>
    /\ catalog \in Catalogs \cup {FullCatalog}
    /\ clock = 0
    /\ files = EmptyDict
    /\ NoUnitCall
    /\ session = "ClientSession"
    /\ exit_stack = <<"stdio_client", "ClientSession">>
    /\ mpc = "caller"
    /\ connected = "True"
    /\ validated = "unset"
    /\ analysis_data = NoResult
    /\ report = [none |-> TRUE, parts |-> <<>>]
    /\ filepath = <<>>
    /\ exit_code = -1
    /\ escaped = None
    /\ printed = {}
    /\ called = {"connect"}
    /\ closed = 0
    /\ \E sym \in RunSymbols :
         /\ rpc = [r \in Runs |-> IF r = 1 THEN "await_list" ELSE "idle"]
         /\ symbol = [r \in Runs |-> IF r = 1 THEN sym ELSE <<>>]
    /\ mcp_tools = [r \in Runs |-> <<>>]
    /\ openai_tools = [r \in Runs |-> <<>>]
    /\ tool_calls = [r \in Runs |-> <<>>]
    /\ content = [r \in Runs |-> None]
    /\ idx = [r \in Runs |-> 0]
    /\ analysis_results = [r \in Runs |-> EmptyDict]
    /\ retval = [r \in Runs |-> NoResult]
    /\ exc = [r \in Runs |-> None]
    /\ thrown = [r \in Runs |-> <<>>]
    /\ sent = [r \in Runs |-> <<>>]
    /\ answers = [r \in Runs |-> <<>>]
    /\ requests = [r \in Runs |-> <<>>]

\* the caller makes the second call once the first has returned
SecondCall ==
    /\ mpc = "caller"
    /\ rpc[1] = "returned"
    /\ rpc[2] = "idle"
    /\ EnterOrchestration(2, symbol[1])
    /\ UNCHANGED <<files, unitVars>>
    /\ UNCHANGED <<envVars, objVars, mainVars>>

\* the backend call of run r raised
BackendRaised(r) == thrown[r] # <<>> /\ thrown[r][1] \in {"APIConnectionError", "IndexError"}

PairListToolsReturns(r) ==
    /\ ListToolsReturns(r)
    /\ r = 2 => mcp_tools'[2] = mcp_tools[1]

PairCallBackend(r) ==
    /\ CallBackendWith(r, MaxPairCalls)
    /\ r = 2 => IF BackendRaised(1)
                THEN thrown'[2] = <<thrown[1][1]>>
                ELSE /\ thrown'[2] = <<>>
                     /\ Names(tool_calls'[2]) = Names(tool_calls[1])
                     /\ content'[2] = content[1]

\* the tool session answers the second run as it answered the first at the
\* same position of the loop
PairToolCallReturns(r) ==
    /\ ToolCallReturns(r)
    /\ (r = 2 /\ Len(answers'[2]) <= Len(answers[1]))
          => answers'[2][Len(answers'[2])] = answers[1][Len(answers'[2])]

NextPair ==
    \/ SecondCall
    \/ \E r \in Runs :
         \/ PairListToolsReturns(r)
         \/ PairCallBackend(r)
         \/ NextToolCall(r)
         \/ PairToolCallReturns(r)
         \/ ReturnResult(r)

SpecPair == InitPair /\ [][NextPair]_vars


(***************************************************************************)
(* Two runs of analyze_with_openai started together on one connected       *)
(* analyzer (asyncio.gather) and interleaved at their awaits.  The tool    *)
(* session routes each answer to the request it belongs to, and the server *)
(* answers a request with a text about the symbol of that request.         *)
(***************************************************************************)
\* the text the server has for a symbol
ServerText(sym) == IF sym = <<"A">> THEN "r1" ELSE "r2"

\* the catalogue of the concurrent runs: two target tools and another tool
ConcCatalog == << Descriptor(OtherTool),
                  Descriptor("analyze_dual_ma_strategy"),
                  Descriptor("analyze_bollinger_zscore_performance") >>

InitConc ==
    /\ api_key = TRUE
    /\ argv_symbol = <<>>
    /\ catalog = ConcCatalog
    /\ clock = 0
    /\ files = EmptyDict
    /\ NoUnitCall
    /\ session = "ClientSession"
    /\ exit_stack = <<"stdio_client", "ClientSession">>
    /\ mpc = "caller"
    /\ connected = "True"
    /\ validated = "unset"
    /\ analysis_data = NoResult
    /\ report = [none |-> TRUE, parts |-> <<>>]
    /\ filepath = <<>>
    /\ exit_code = -1
    /\ escaped = None
    /\ printed = {}
    /\ called = {"connect"}
    /\ closed = 0
    /\ rpc = [r \in Runs |-> "await_list"]
    /\ symbol \in [Runs -> RunSymbols]
    /\ mcp_tools = [r \in Runs |-> <<>>]
    /\ openai_tools = [r \in Runs |-> <<>>]
    /\ tool_calls = [r \in Runs |-> <<>>]
    /\ content = [r \in Runs |-> None]
    /\ idx = [r \in Runs |-> 0]
    /\ analysis_results = [r \in Runs |-> EmptyDict]
    /\ retval = [r \in Runs |-> NoResult]
    /\ exc = [r \in Runs |-> None]
    /\ thrown = [r \in Runs |-> <<>>]
    /\ sent = [r \in Runs |-> <<>>]
    /\ answers = [r \in Runs |-> <<>>]
    /\ requests = [r \in Runs |-> <<>>]

\* the backend answers a run with a narrative and payload-free proposals
ConcCallBackend(r) ==
    /\ CallBackendWith(r, MaxConcCalls)
    /\ thrown'[r] = <<>> =>
          /\ content'[r] = "Analysis summary"
          /\ \A i \in 1..Len(tool_calls'[r]) : tool_calls'[r][i].arguments = ""

\* the answer to a request of run r is about the symbol of that request
ConcToolCallReturns(r) ==
    /\ ToolCallReturns(r)
    /\ LET n == Len(answers'[r])
       IN  answers'[r][n] \in {None, "", ServerText(sent[r][n].parameters.symbol)}

NextConc ==
    \E r \in Runs :
       \/ ListToolsReturns(r)
       \/ ConcCallBackend(r)
       \/ NextToolCall(r)
       \/ ConcToolCallReturns(r)
       \/ ReturnResult(r)

SpecConc == InitConc /\ [][NextConc]_vars


(***************************************************************************)
(* Single operations called on an analyzer that main() is not running: the *)
(* way the unit tests call them                                            *)
(***************************************************************************)
\* the analyzer as StockAnalyzer() leaves it, with nothing else running
Constructed ==
    /\ api_key = TRUE
    /\ argv_symbol = <<>>
    /\ catalog = <<>>
    /\ clock = 0
    /\ files = EmptyDict
    /\ session = None
    /\ exit_stack = <<>>
    /\ mpc = "caller"
    /\ connected = "unset"
    /\ validated = "unset"
    /\ analysis_data = NoResult
    /\ report = [none |-> TRUE, parts |-> <<>>]
    /\ filepath = <<>>
    /\ exit_code = -1
    /\ escaped = None
    /\ printed = {}
    /\ called = {}
    /\ closed = 0
    /\ IdleRuns

\* every string of at most n characters
Strings(n) == UNION { [1..k -> Chars] : k \in 0..n }

\* the symbols validate_symbol is called with: strings, and None
SymbolInputs == Strings(MaxSymbolLen) \cup {NoneSymbol}

InitValidate ==
    /\ Constructed
    /\ upc = "call"
    /\ arg \in SymbolInputs
    /\ out = NoResult
    /\ log = <<>>

\* one call of validate_symbol(arg)
ValidateSymbol ==
    /\ upc = "call"
    /\ \E lookup \in LookupOutcomes :
         LET v == validate_symbol_call(arg, lookup)
         IN  /\ out' = [raises |-> v.raises, result |-> v.result]
             /\ log' = log \o v.lookups
    /\ upc' = "done"
    /\ UNCHANGED <<envVars, files, objVars, mainVars, runVars, arg>>

NextValidate == ValidateSymbol

SpecValidate == InitValidate /\ [][NextValidate]_vars

\* the descriptors create_openai_tools_schema is called with: the five
\* target tools and another one, each with and without a description
DescriptorInputs ==
    { [name |-> n, description |-> d] :
        n \in TargetToolNames \cup {OtherTool}, d \in {"", "Test tool"} }

\* the lists of at most n descriptors
DescriptorLists(n) == UNION { [1..k -> DescriptorInputs] : k \in 0..n }

InitSchema ==
    /\ Constructed
    /\ upc = "call"
    /\ arg \in DescriptorLists(MaxDescriptors)
    /\ out = NoResult
    /\ log = <<arg>>

\* one call of create_openai_tools_schema(arg): a new list is built and the
\* argument is only read
CreateSchema ==
    /\ upc = "call"
    /\ out' = create_openai_tools_schema(arg)
    /\ upc' = "done"
    /\ UNCHANGED <<envVars, files, objVars, mainVars, runVars, arg, log>>

NextSchema == CreateSchema

SpecSchema == InitSchema /\ [][NextSchema]_vars

\* the error session.call_tool() ends in: AttributeError when self.session
\* is None, the error of the transport when the call fails
call_tool_error(outcome) ==
    IF session = None THEN "AttributeError"
    ELSE IF outcome.raises THEN "RuntimeError"
    ELSE None

\* an execute_mcp_tool that sends the call again when the first one failed
execute_mcp_tool_call_retrying(tool_name, parameters, outcome) ==
    LET call == [op |-> "call_tool", name |-> tool_name, parameters |-> parameters]
        e    == call_tool_error(outcome)
    IN  [raises |-> IF e = None \/ except_Exception(e) THEN None ELSE e,
         result |-> execute_mcp_tool(outcome),
         calls  |-> IF session = None THEN <<>>
                    ELSE IF outcome.raises THEN <<call, call>> ELSE <<call>>]

\* execute_mcp_tool() with what it does on the way: the exception that
\* escapes it, the value it returns, and the calls that reach the session
execute_mcp_tool_call(tool_name, parameters, outcome) ==
    LET call == [op |-> "call_tool", name |-> tool_name, parameters |-> parameters]
        e    == call_tool_error(outcome)
    IN  [raises |-> IF e = None \/ except_Exception(e) THEN None ELSE e,
         result |-> execute_mcp_tool(outcome),
         calls  |-> IF session = None THEN <<>> ELSE <<call>>]

\* the error session.list_tools() ends in
list_tools_error(outcome) ==
    IF session = None THEN "AttributeError"
    ELSE IF outcome = "raises" THEN "RuntimeError"
    ELSE None

\* get_available_tools() with what it does on the way
get_available_tools_call(outcome) ==
    LET e == list_tools_error(outcome)
    IN  [raises |-> IF e = None \/ except_Exception(e) THEN None ELSE e,
         result |-> get_available_tools(outcome),
         calls  |-> IF session = None THEN <<>> ELSE <<[op |-> "list_tools"]>>]

\* the parameter bags execute_mcp_tool is called with
ParameterBags ==
    { [symbol |-> sym] : sym \in RunSymbols }
    \cup { tool_params(n, EmptyDict, sym) : n \in TargetToolNames, sym \in RunSymbols }

\* one operation of the tool session called on an analyzer that holds a
\* session or holds none
InitInvoke ==
    /\ api_key = TRUE
    /\ argv_symbol = <<>>
    /\ catalog \in Catalogs \cup {FullCatalog}
    /\ clock = 0
    /\ files = EmptyDict
    /\ \/ session = None /\ exit_stack = <<>>
       \/ session = "ClientSession" /\ exit_stack = <<"stdio_client", "ClientSession">>
    /\ mpc = "caller"
    /\ connected = "unset"
    /\ validated = "unset"
    /\ analysis_data = NoResult
    /\ report = [none |-> TRUE, parts |-> <<>>]
    /\ filepath = <<>>
    /\ exit_code = -1
    /\ escaped = None
    /\ printed = {}
    /\ called = {}
    /\ closed = 0
    /\ IdleRuns
    /\ upc = "call"
    /\ arg = <<>>
    /\ out = NoResult
    /\ log = <<>>

\* one call of execute_mcp_tool(tool_name, parameters)
ExecuteToolCall ==
    /\ upc = "call"
    /\ \E tool_name \in TargetToolNames \cup {OtherTool}, parameters \in ParameterBags,
          outcome \in ToolOutcomes :
         LET x == execute_mcp_tool_call(tool_name, parameters, outcome)
         IN  /\ arg' = [op |-> "execute_mcp_tool", name |-> tool_name,
                        parameters |-> parameters, outcome |-> outcome]
             /\ out' = [raises |-> x.raises, result |-> x.result]
             /\ log' = log \o x.calls
    /\ upc' = "done"
    /\ UNCHANGED <<envVars, files, objVars, mainVars, runVars>>

\* one call of get_available_tools()
ListToolsCall ==
    /\ upc = "call"
    /\ \E outcome \in ListOutcomes :
         LET x == get_available_tools_call(outcome)
         IN  /\ arg' = [op |-> "get_available_tools", outcome |-> outcome]
             /\ out' = [raises |-> x.raises, result |-> x.result]
             /\ log' = log \o x.calls
    /\ upc' = "done"
    /\ UNCHANGED <<envVars, files, objVars, mainVars, runVars>>

NextInvoke ==
    \/ ExecuteToolCall
    \/ ListToolsCall

SpecInvoke == InitInvoke /\ [][NextInvoke]_vars

\* connect and disconnect called on one analyzer in any order
InitSession ==
    /\ Constructed
    /\ upc = "call"
    /\ arg = <<>>
    /\ out = NoResult
    /\ log = <<>>

\* one call of connect_to_mcp_server()
ConnectCall ==
    /\ upc = "call"
    /\ Len(log) < MaxOps
    /\ \E outcome \in ConnectOutcomes :
         LET c == connect_to_mcp_server(outcome)
         IN  /\ session' = c.session
             /\ exit_stack' = c.exit_stack
             /\ out' = [raises |-> c.raises, result |-> c.result]
             /\ log' = Append(log, [op |-> "connect", outcome |-> outcome,
                                    raises |-> c.raises, result |-> c.result,
                                    before |-> [session |-> session, exit_stack |-> exit_stack],
                                    after  |-> [session |-> c.session,
                                                exit_stack |-> c.exit_stack]])
    /\ UNCHANGED <<envVars, files, mainVars, runVars, upc, arg>>

\* one call of disconnect_from_mcp_server()
DisconnectCall ==
    /\ upc = "call"
    /\ Len(log) < MaxOps
    /\ \E raised \in AcloseOutcomes :
         LET d == disconnect_from_mcp_server(raised)
         IN  /\ session' = d.session
             /\ exit_stack' = d.exit_stack
             /\ out' = [raises |-> d.raises, result |-> FALSE]
             /\ log' = Append(log, [op |-> "disconnect", outcome |-> raised,
                                    raises |-> d.raises, result |-> FALSE,
                                    before |-> [session |-> session, exit_stack |-> exit_stack],
                                    after  |-> [session |-> d.session,
                                                exit_stack |-> d.exit_stack]])
    /\ UNCHANGED <<envVars, files, mainVars, runVars, upc, arg>>

NextSession ==
    \/ ConnectCall
    \/ DisconnectCall

SpecSession == InitSession /\ [][NextSession]_vars

\* the documents save_report is called with; main can pass None
Reports == { [none |-> FALSE, parts |-> <<"# Report">>],
             [none |-> FALSE, parts |-> <<"# Report", "revised">>],
             [none |-> TRUE, parts |-> <<>>] }

\* two calls of save_report, at any two readings of the clock
InitStore ==
    /\ Constructed
    /\ upc = "first"
    /\ arg = <<>>
    /\ out = NoResult
    /\ log = <<>>

\* datetime.now() reads a wall clock: any other reading may come next
Tick ==
    /\ upc \in {"first", "second"}
    /\ clock' \in (0..MaxClock) \ {clock}
    /\ UNCHANGED <<api_key, argv_symbol, catalog, files, objVars, mainVars, runVars, unitVars>>

\* one call of save_report(rep, sym)
SaveCall ==
    /\ upc \in {"first", "second"}
    /\ \E rep \in Reports, sym \in RunSymbols, outcome \in SaveOutcomes :
         LET saved == save_report(rep, sym, outcome, clock, files)
         IN  /\ files' = saved.files
             /\ arg' = <<rep, sym>>
             /\ out' = [raises |-> saved.raises, path |-> saved.path]
             /\ log' = Append(log, [op |-> "save_report", symbol |-> sym, now |-> clock,
                                    outcome |-> IF rep.none /\ outcome = "written"
                                                THEN "write_raises" ELSE outcome,
                                    raises |-> saved.raises, path |-> saved.path])
    /\ upc' = IF upc = "first" THEN "second" ELSE "done"
    /\ UNCHANGED <<envVars, objVars, mainVars, runVars>>

NextStore ==
    \/ Tick
    \/ SaveCall

SpecStore == InitStore /\ [][NextStore]_vars

(***************************************************************************)
(* Properties                                                              *)
(***************************************************************************)
IsPrefix(a, b) == Len(a) <= Len(b) /\ SubSeq(b, 1, Len(a)) = a

Finished(r) == rpc[r] = "returned"

\* the for loop of run r ran to its end
LoopCompleted(r) == Finished(r) /\ idx[r] = Len(tool_calls[r]) + 1

\* every payload of the response of run r can be evaluated
AllEvaluable(r) == \A i \in 1..Len(tool_calls[r]) : ~ToolArgs(tool_calls[r][i].arguments).raises

\* every call run r sent carries the name of the proposal at the same
\* position, and as parameters the fixed parameters of that name with the
\* symbol of the run
SentBagsCanonical(r) ==
    \A i \in 1..Len(sent[r]) :
        /\ i <= Len(tool_calls[r])
        /\ sent[r][i] = [ name       |-> tool_calls[r][i].name,
                          parameters |-> Update([symbol |-> symbol[r]],
                                                CanonicalParameters(tool_calls[r][i].name)) ]

\* C1 (as stated): every parameter bag sent to the tool session is the fixed
\* parameters of the tool merged with the symbol of the run, and two runs that
\* differ only in the argument payloads the backend proposed send identical
\* parameter bags.
C1_SentBagsIdenticalAcrossPayloads ==
    /\ \A r \in Runs : SentBagsCanonical(r)
    /\ (Finished(1) /\ Finished(2)) => sent[1] = sent[2]

\* C1 (amended): every parameter bag sent is the fixed parameters of the tool
\* merged with the symbol of the run; of two runs that differ only in the
\* proposed payloads, the bags one sends are a prefix of the bags the other
\* sends, and both send the same bags when every payload of both can be
\* evaluated.
C1_SentBagsCanonicalPrefix ==
    /\ \A r \in Runs : SentBagsCanonical(r)
    /\ (Finished(1) /\ Finished(2)) =>
          /\ IsPrefix(sent[1], sent[2]) \/ IsPrefix(sent[2], sent[1])
          /\ (AllEvaluable(1) /\ AllEvaluable(2)) => sent[1] = sent[2]

\* C1 witness: two finished runs whose responses differ in a payload, one of
\* them proposing another symbol, have sent the same non-empty list of bags
C1_Witness ==
    /\ Finished(1) /\ Finished(2)
    /\ tool_calls[1] # tool_calls[2]
    /\ \E i \in 1..Len(tool_calls[2]) : tool_calls[2][i].arguments = "{'symbol': 'Z', 'period': '5d'}"
    /\ symbol[2] = <<"A">>
    /\ sent[2] # <<>>
    /\ sent[1] = sent[2]

\* C2: a proposed invocation whose tool name is not one of the five target
\* tools is skipped: no call is sent to the tool session for that name and
\* every key of analysis_results is one of the five strategy identifiers.
C2_UnknownToolSkipped ==
    \A r \in Runs :
        /\ \A i \in 1..Len(sent[r]) : sent[r][i].name \in TargetToolNames
        /\ DOMAIN analysis_results[r] \subseteq StrategyIdentifiers

\* C3: when the only proposed invocation names a tool outside the allow-list,
\* the run returns an error result and never a bundle.
C3_OnlyUnknownToolIsError ==
    \A r \in Runs :
        (/\ Finished(r)
         /\ Len(tool_calls[r]) = 1
         /\ tool_calls[r][1].name \notin TargetToolNames)
        => "error" \in DOMAIN retval[r]

\* C4: when every tool invocation of a run returned None, or the backend
\* proposed none at all, the run returns an error result and not a bundle;
\* when the loop ran to its end the error is "No analysis results obtained".
C4_NoResultsIsError ==
    \A r \in Runs :
        (Finished(r) /\ \A i \in 1..Len(answers[r]) : answers[r][i] = None)
        => /\ DOMAIN retval[r] = {"error"}
           /\ LoopCompleted(r) =>
                 retval[r] = [error |-> <<"No analysis results obtained from OpenAI tool calls">>]

\* C4 witness: a run whose two invocations both returned None has returned
\* the error
C4_Witness ==
    /\ Finished(1)
    /\ Len(answers[1]) = 2
    /\ \A i \in 1..2 : answers[1][i] = None
    /\ retval[1] = [error |-> <<"No analysis results obtained from OpenAI tool calls">>]

\* C5: an invocation that returns None does not abort the run: when the loop
\* has run through the proposals and at least one invocation returned text,
\* the run returns a bundle whose entries are exactly the strategies whose
\* invocation returned text.
C5_FailedInvocationDegradesBundle ==
    \A r \in Runs :
        (/\ LoopCompleted(r)
         /\ \E i \in 1..Len(answers[r]) : answers[r][i] = None
         /\ \E i \in 1..Len(answers[r]) : answers[r][i] # None)
        => /\ "analyses" \in DOMAIN retval[r]
           /\ DOMAIN retval[r].analyses \subseteq StrategyIdentifiers
           /\ DOMAIN retval[r].analyses =
                 { analysis_key(tool_calls[r][i].name) :
                       i \in { j \in 1..Len(answers[r]) : answers[r][j] # None } }

\* the tools get_available_tools returned to run r include none of the five
NoTargetToolListed(r) ==
    /\ rpc[r] \notin {"idle", "await_list"}
    /\ \A i \in 1..Len(mcp_tools[r]) : mcp_tools[r][i].name \notin TargetToolNames

\* C6: when no tool is listed or none of the listed tools is in the
\* allow-list, the run returns the error "No analysis tools available" with
\* no analysis result, without a request to the backend and without a tool
\* call; a second call in the same condition returns the same result.
C6_EmptySchemaIsError ==
    /\ \A r \in Runs :
          NoTargetToolListed(r)
          => /\ Finished(r)
             /\ retval[r] = [error |-> <<"No analysis tools available">>]
             /\ analysis_results[r] = EmptyDict
             /\ requests[r] = <<>>
             /\ sent[r] = <<>>
    /\ (NoTargetToolListed(1) /\ NoTargetToolListed(2)) => retval[1] = retval[2]

\* C6 witness: two calls that were each given a catalogue without any target
\* tool have both returned
C6_Witness ==
    /\ NoTargetToolListed(1) /\ NoTargetToolListed(2)
    /\ mcp_tools[2] # <<>>
    /\ Finished(2)
    /\ retval[2] = [error |-> <<"No analysis tools available">>]

\* C7: an error raised while the run calls the backend, reads its response or
\* processes the proposed invocations never escapes analyze_with_openai: the
\* run returns an error result that carries the description of the error.
C7_ErrorsBecomeErrorResult ==
    \A r \in Runs :
        /\ rpc[r] = "raised" => exc[r] \notin ErrorKinds
        /\ \A i \in 1..Len(thrown[r]) :
              thrown[r][i] \in ErrorKinds
              => /\ Finished(r)
                 /\ retval[r] = [error |-> <<"OpenAI analysis failed: ", thrown[r][i]>>]

\* C7 witness: a malformed response (no choices) was turned into an error result
C7_Witness ==
    /\ Finished(1)
    /\ thrown[1] = <<"IndexError">>
    /\ retval[1] = [error |-> <<"OpenAI analysis failed: ", "IndexError">>]

\* C8: for a validated symbol, when the orchestration step raises,
\* analyze_stock still returns a result that carries an error field.
C8_AnalyzeStockReturnsError ==
    (validated = "True" /\ rpc[1] = "raised" /\ mpc # "analyzing")
    => "error" \in DOMAIN analysis_data

\* C9: when the symbol fails validation, no tool session operation (connect
\* included) and no backend request is made in that process run, and the
\* process exits non-zero.
C9_InvalidSymbolShortCircuits ==
    validated = "False"
    => /\ called \cap {"connect", "list_tools", "call_tool", "openai"} = {}
       /\ mpc = "exited" => exit_code = 1

\* C10: when connect returns False, main reports a connection error and exits
\* non-zero, and the validator, the orchestrator, the report synthesizer and
\* the report store are not invoked.
C10_FailedConnectStopsPipeline ==
    connected = "False"
    => /\ mpc \in {"finally", "exited"}
       /\ exit_code = 1
       /\ "Error: Could not connect to finance tools MCP server" \in printed
       /\ called \cap {"validate_symbol", "yfinance", "analyze_with_openai", "list_tools",
                       "call_tool", "openai", "generate_markdown_report", "save_report"} = {}
       /\ \A r \in Runs : rpc[r] = "idle"

\* C10 witness: the process has exited after a connect that failed in the handshake
C10_Witness ==
    /\ connected = "False"
    /\ mpc = "exited"
    /\ exit_code = 1
    /\ called = {"connect", "disconnect"}

(***************************************************************************)
(* The exit paths of main()                                                *)
(***************************************************************************)
\* C11 (as claimed): on every exit path of main, the missing credential
\* included, disconnect_from_mcp_server has run exactly once when the
\* process returns
C11_DisconnectOnEveryExit == mpc = "exited" => closed = 1

\* C11 (amended): once the credential check has passed, every exit path
\* (success, connection failure, analysis error, save failure, unexpected
\* error, interruption) runs disconnect_from_mcp_server exactly once before
\* main is left; the missing-credential path returns before an analyzer
\* exists and runs no disconnect; disconnect never runs twice
C11_DisconnectOnceAfterCredentialCheck ==
    /\ closed <= 1
    /\ mpc = "exited" => closed = (IF api_key THEN 1 ELSE 0)
    /\ closed = 1 => mpc = "exited" /\ "disconnect" \in called

C11_Witness ==
    /\ mpc = "exited"
    /\ closed = 1
    /\ "Analysis interrupted by user" \in printed
    /\ session = None

\* the analysis returned a bundle: a result without an error key
ReturnedBundle == analysis_data # NoResult /\ "error" \notin DOMAIN analysis_data

\* C12: when the process has ended, its exit code is zero exactly when the
\* credential was present, connect returned True, the analysis returned a
\* bundle, save_report returned a non-empty path and no interruption escaped
\* afterwards; a missing credential, a failed connection, an analysis
\* error, a failed save, an unexpected error and a user interruption each
\* give a non-zero exit code
C12_ExitCodeZeroExactlyOnSuccess ==
    mpc = "exited" =>
       /\ process_exit_code \in {0, 1}
       /\ process_exit_code = 0 <=>
              /\ api_key
              /\ connected = "True"
              /\ ReturnedBundle
              /\ filepath # <<>>
              /\ escaped = None
       /\ ~api_key => process_exit_code # 0
       /\ connected = "False" => process_exit_code # 0
       /\ "error" \in DOMAIN analysis_data => process_exit_code # 0
       /\ ("save_report" \in called /\ filepath = <<>>) => process_exit_code # 0
       /\ "Unexpected error" \in printed => process_exit_code # 0
       /\ "Analysis interrupted by user" \in printed => process_exit_code # 0
       /\ escaped # None => process_exit_code # 0

C12_Witness ==
    /\ mpc = "exited"
    /\ process_exit_code = 0
    /\ filepath # <<>>
    /\ "AI-powered analysis completed successfully!" \in printed

(***************************************************************************)
(* validate_symbol                                                         *)
(***************************************************************************)
\* the symbol is None, empty, or made of blanks only
BlankInput(sym) == sym = NoneSymbol \/ \A i \in 1..Len(sym) : sym[i] = " "

\* C13: for an empty, whitespace-only or missing symbol, validate_symbol
\* returns False and makes no market-data lookup
C13_BlankSymbolNoLookup ==
    (upc = "done" /\ BlankInput(arg)) =>
       /\ out.result = FALSE
       /\ out.raises = None
       /\ log = <<>>

C13_Witness ==
    /\ upc = "done"
    /\ arg = <<" ", " ">>
    /\ out.result = FALSE
    /\ log = <<>>

\* C14: for a non-blank symbol, validate_symbol makes exactly one 5-day
\* price-history lookup, on the trimmed and upper-cased symbol, returns True
\* exactly when the lookup came back with rows, False when it came back
\* empty or raised, and raises nothing itself
C14_OneLookupDecides ==
    (upc = "done" /\ ~BlankInput(arg)) =>
       /\ Len(log) = 1
       /\ log[1].ticker = upper(strip(arg))
       /\ log[1].period = "5d"
       /\ out.result = (log[1].outcome = "rows")
       /\ log[1].outcome \in {"empty", "raises"} => out.result = FALSE
       /\ out.raises = None

C14_Witness ==
    /\ upc = "done"
    /\ arg = <<" ", "a", "z">>
    /\ log = <<[ticker |-> <<"A", "Z">>, period |-> "5d", outcome |-> "rows"]>>
    /\ out.result = TRUE

(***************************************************************************)
(* The Report Synthesizer                                                  *)
(***************************************************************************)
\* the synthesizer has returned to main
Synthesized == "generate_markdown_report" \in called

\* the document returned is the fallback of the except clause
IsFallback(rep, sym) ==
    /\ ~rep.none
    /\ Len(rep.parts) = 4
    /\ rep.parts[1] = "# Technical Analysis Report: "
    /\ rep.parts[2] = sym

\* C15: whatever the backend does (content, empty content, no content, or
\* a failure), the synthesizer returns a non-empty document; when the
\* backend call fails the document is the fallback with the header and the
\* run's symbol; a failing price lookup alone does not make it fall back
C15_SynthesizerReturnsNonEmpty ==
    Synthesized =>
       LET made == log[Len(log)]
       IN  /\ ~report.none
           /\ report.parts # <<>>
           /\ made.backend.raises => IsFallback(report, analysis_data.symbol)
           /\ (made.price_info = "N/A" /\ ~made.backend.raises)
                  => ~IsFallback(report, analysis_data.symbol)

(***************************************************************************)
(* The Report Store                                                        *)
(***************************************************************************)
\* C16: whichever step of save_report meets an I/O failure, the mkdir or
\* the write, save_report returns the empty path and does not raise; it
\* returns a non-empty path only when the file was written
C16_SaveFailureReturnsEmptyPath ==
    \A i \in 1..Len(log) :
       /\ ~log[i].raises
       /\ log[i].outcome # "written" => log[i].path = <<>>
       /\ log[i].path # <<>> => log[i].outcome = "written"

\* save i of the log returned a path
Saved(i) == ~log[i].raises /\ log[i].path # <<>>

\* the time between two readings of the clock, in ticks
Distance(a, b) == IF a > b THEN a - b ELSE b - a

\* C17: two successful saves of one symbol whose timestamps are more than
\* one second apart return different paths, and after both saves both
\* files exist under analysis/; every returned path has the shape
\* analysis/Technical_analysis_<symbol>_<timestamp>.md
C17_DistinctPathsWhenSecondsApart ==
    /\ \A i, j \in 1..Len(log) :
          (/\ i < j
           /\ Saved(i) /\ Saved(j)
           /\ log[i].symbol = log[j].symbol
           /\ Distance(log[i].now, log[j].now) > TicksPerSecond)
          => /\ log[i].path # log[j].path
             /\ {log[i].path, log[j].path} \subseteq DOMAIN files
    /\ \A i \in 1..Len(log) :
          Saved(i) => /\ Len(log[i].path) = 5
                      /\ log[i].path[1] = "analysis/Technical_analysis_"
                      /\ log[i].path[2] = log[i].symbol
                      /\ log[i].path[3] = "_"
                      /\ log[i].path[4] = log[i].now \div TicksPerSecond
                      /\ log[i].path[5] = ".md"

C17_Witness ==
    /\ upc = "done"
    /\ Saved(1) /\ Saved(2)
    /\ log[1].symbol = log[2].symbol
    /\ Distance(log[1].now, log[2].now) > TicksPerSecond
    /\ log[1].path # log[2].path
    /\ Cardinality(DOMAIN files) = 2

\* C28: a report file that a save has written keeps its content through
\* every later save, two saves of one symbol within one second included
C28_WrittenFilesNeverChange ==
    [][\A p \in DOMAIN files :
          files[p] # <<>> => (p \in DOMAIN files' /\ files'[p] = files[p])]_vars

(***************************************************************************)
(* The Tool Schema Adapter                                                 *)
(***************************************************************************)
\* the positions of the descriptors of list whose name is one of the five
AllowedPositions(list) ==
    { i \in 1..Len(list) : list[i].name \in { "analyze_bollinger_zscore_performance",
                                               "analyze_bollinger_fibonacci_performance",
                                               "analyze_macd_donchian_performance",
                                               "analyze_connors_zscore_performance",
                                               "analyze_dual_ma_strategy" } }

\* the k-th of these positions, counted from the front
AllowedPosition(list, k) ==
    CHOOSE i \in AllowedPositions(list) :
       Cardinality({ j \in AllowedPositions(list) : j <= i }) = k

\* C18: create_openai_tools_schema returns one specification per descriptor
\* whose name is one of the five and none for the others, in the order of
\* the input, each carrying the descriptor's name, its description or the
\* generated one, and exactly one required parameter, symbol; the input
\* list is as it was before the call
C18_SchemaFiltersInOrder ==
    upc = "done" =>
       /\ Len(out) = Cardinality(AllowedPositions(arg))
       /\ \A k \in 1..Len(out) :
             LET tool == arg[AllowedPosition(arg, k)]
                 spec == out[k]
             IN  /\ spec.type = "function"
                 /\ spec.function.name = tool.name
                 /\ spec.function.description =
                        (IF tool.description = ""
                         THEN <<"Execute ", tool.name, " analysis">>
                         ELSE <<tool.description>>)
                 /\ DOMAIN spec.function.parameters.properties = {"symbol"}
                 /\ spec.function.parameters.required = <<"symbol">>
       /\ arg = log[1]

C18_Witness ==
    /\ upc = "done"
    /\ Len(arg) = 3
    /\ arg[1].name = "analyze_dual_ma_strategy"
    /\ arg[2].name = OtherTool
    /\ arg[3].name = "analyze_bollinger_zscore_performance"
    /\ Len(out) = 2
    /\ out[1].function.name = "analyze_dual_ma_strategy"
    /\ out[2].function.name = "analyze_bollinger_zscore_performance"

(***************************************************************************)
(* The Tool Session: connect and disconnect                                *)
(***************************************************************************)
\* the calls of the log that are calls of op
CallsOf(op) == { i \in 1..Len(log) : log[i].op = op }

\* C19: disconnect_from_mcp_server, called in any state (never connected,
\* connected, already disconnected, after a failed connect) and any number
\* of times, lets no error of the close escape and leaves the analyzer
\* without a session; a second disconnect right after a first leaves the
\* analyzer exactly as the first left it
C19_DisconnectIdempotentAndTotal ==
    \A i \in CallsOf("disconnect") :
       /\ log[i].outcome # "CancelledError" => log[i].raises = None
       /\ log[i].after.session = None
       /\ (i > 1 /\ log[i - 1].op = "disconnect") => log[i].after = log[i - 1].after

C19_Witness ==
    /\ Len(log) = 3
    /\ log[1].op = "connect" /\ log[1].outcome = "initialize_fails"
    /\ log[2].op = "disconnect" /\ log[2].outcome = "RuntimeError"
    /\ log[2].before.session = "ClientSession"
    /\ log[3].op = "disconnect"
    /\ session = None

\* C20: connect_to_mcp_server returns False and raises nothing on every
\* failure: a missing server file, in which case nothing is entered on the
\* exit stack (no process is started), a failing process start, a failing
\* handshake; it returns True only after initialize() completed
C20_ConnectFalseOnEveryFailure ==
    \A i \in CallsOf("connect") :
       /\ log[i].raises = None
       /\ log[i].outcome # "initialized" => log[i].result = FALSE
       /\ log[i].result = TRUE =>
             /\ log[i].outcome = "initialized"
             /\ log[i].after.session = "ClientSession"
       /\ log[i].outcome \in {"server_missing", "stdio_client_fails"} =>
             log[i].after = log[i].before

C20_Witness ==
    /\ Len(log) = 2
    /\ log[1].op = "connect" /\ log[1].outcome = "initialize_fails"
    /\ log[1].result = FALSE
    /\ log[1].after.session = "ClientSession"
    /\ log[2].op = "connect" /\ log[2].outcome = "server_missing"
    /\ log[2].result = FALSE

\* C29: every disconnect leaves the exit stack empty, so whatever a connect
\* attempt entered on it (the companion process, the session) is released
\* by the next disconnect, also after a connect that returned False; and a
\* connect that returned False leaves the analyzer without a session handle
C29_FailedConnectHoldsNoSession ==
    /\ \A i \in CallsOf("disconnect") : log[i].after.exit_stack = <<>>
    /\ \A i \in CallsOf("connect") :
          log[i].result = FALSE => log[i].after.session = None

(***************************************************************************)
(* The Tool Session: invoke and list                                       *)
(***************************************************************************)
\* the operation op was called and has returned
Called(op) == upc = "done" /\ arg.op = op

\* C21: one call of execute_mcp_tool sends at most one call to the session,
\* with the name and the parameter bag it was given, and none when there is
\* no session; it returns the text of the first content block when the
\* response has content, and None when the response has no content, when
\* the call failed or when there is no session, and raises nothing
C21_ExecuteToolAtMostOnce ==
    Called("execute_mcp_tool") =>
       /\ Len(log) <= 1
       /\ \A i \in 1..Len(log) :
             log[i] = [op |-> "call_tool", name |-> arg.name, parameters |-> arg.parameters]
       /\ session = None => log = <<>>
       /\ out.raises = None
       /\ out.result = (IF session # None /\ ~arg.outcome.raises /\ arg.outcome.content # <<>>
                        THEN arg.outcome.content[1]
                        ELSE None)

C21_Witness ==
    /\ Called("execute_mcp_tool")
    /\ session = "ClientSession"
    /\ arg.outcome.raises
    /\ Len(log) = 1
    /\ out.result = None

\* C22: get_available_tools returns the empty list and raises nothing when
\* the catalogue request fails or there is no session, and the catalogue of
\* the session, as it is, when the request succeeds
C22_ListToolsEmptyOnFailure ==
    Called("get_available_tools") =>
       /\ out.raises = None
       /\ (session = None \/ arg.outcome = "raises") => out.result = <<>>
       /\ (session # None /\ arg.outcome = "tools") => out.result = catalog
       /\ Len(log) <= 1

C22_Witness ==
    /\ Called("get_available_tools")
    /\ session = None
    /\ catalog = FullCatalog
    /\ out.result = <<>>

(***************************************************************************)
(* The AnalysisResult mapping of one run                                   *)
(***************************************************************************)
\* C23: while a run is in its loop, its analysis_results only grows: an
\* entry, once inserted, keeps its text and is not removed, whatever the
\* proposed calls are, repeated tool names included
C23_ResultsOnlyGrow ==
    [][\A r \in Runs :
         rpc[r] \in {"loop", "await_call"} =>
            \A k \in DOMAIN analysis_results[r] :
               /\ k \in DOMAIN analysis_results'[r]
               /\ analysis_results'[r][k] = analysis_results[r][k]]_vars

\* the analysis_results key of the i-th proposed call of run r
KeyOfCall(r, i) == analysis_key(tool_calls[r][i].name)

\* the last answer run r got for the key of its i-th call
IsLastAnswerForKey(r, i) ==
    \A j \in (i + 1)..Len(answers[r]) : KeyOfCall(r, j) # KeyOfCall(r, i)

\* C24: an invocation that returned the empty string is told apart from one
\* that returned None: a key is missing from analysis_results only when
\* every invocation for it returned None (or there was none), and a tool
\* whose invocation returned "" has an entry holding ""
C24_EmptyStringIsNotAbsent ==
    \A r \in Runs :
       \A i \in 1..Len(answers[r]) :
          /\ answers[r][i] # None => KeyOfCall(r, i) \in DOMAIN analysis_results[r]
          /\ (answers[r][i] = "" /\ IsLastAnswerForKey(r, i))
                => /\ KeyOfCall(r, i) \in DOMAIN analysis_results[r]
                   /\ analysis_results[r][KeyOfCall(r, i)] = ""

\* C25: every bundle a run returns has at least one entry, a strategy
\* count equal to the number of its entries, the symbol the run was started
\* with and no error field; every error result has no analyses mapping
C25_BundleWellFormed ==
    \A r \in Runs :
       Finished(r) =>
          LET v == retval[r]
          IN  IF "error" \in DOMAIN v
              THEN "analyses" \notin DOMAIN v
              ELSE /\ {"symbol", "analyses", "total_strategies"} \subseteq DOMAIN v
                   /\ DOMAIN v.analyses # {}
                   /\ v.total_strategies = Cardinality(DOMAIN v.analyses)
                   /\ v.analyses = analysis_results[r]
                   /\ v.symbol = symbol[r]

C25_Witness ==
    /\ Finished(1)
    /\ "error" \notin DOMAIN retval[1]
    /\ retval[1].total_strategies = 1
    /\ Len(answers[1]) = 2
    /\ retval[1].symbol = <<"Z">>
    /\ \E i \in 1..Len(answers[1]) : answers[1][i] = None

(***************************************************************************)
(* Unevaluable payloads                                                    *)
(***************************************************************************)
\* the payload text has no value: evaluating it raises
Unevaluable(arguments) == arguments # "" /\ arguments # None /\ eval(arguments).raises

\* the positions of the proposals of run r whose payload cannot be evaluated
UnevaluablePositions(r) ==
    { i \in 1..Len(tool_calls[r]) : Unevaluable(tool_calls[r][i].arguments) }

\* the first of them
FirstUnevaluable(r) ==
    CHOOSE k \in UnevaluablePositions(r) : \A j \in UnevaluablePositions(r) : k <= j

\* C30: when the payload of the k-th proposal of a run is the first that
\* cannot be evaluated, the run never issues a k-th invocation (the payload
\* is evaluated before the tool is called, and nothing is invoked after the
\* failure), and when the run returns it returns an error result that
\* names the failure and holds none of the entries collected before it
C30_UnevaluablePayloadFailsRun ==
    \A r \in Runs :
       UnevaluablePositions(r) # {} =>
          /\ Len(sent[r]) < FirstUnevaluable(r)
          /\ Len(answers[r]) < FirstUnevaluable(r)
          /\ Finished(r) =>
                /\ Len(sent[r]) = FirstUnevaluable(r) - 1
                /\ Len(answers[r]) = FirstUnevaluable(r) - 1
                /\ DOMAIN retval[r] = {"error"}
                /\ retval[r].error[1] = "OpenAI analysis failed: "
                /\ retval[r].error[2]
                      = eval(tool_calls[r][FirstUnevaluable(r)].arguments).value

\* the second payload could not be evaluated after the first invocation had
\* returned a text that was collected
C30_Witness ==
    /\ Finished(1)
    /\ UnevaluablePositions(1) = {2}
    /\ DOMAIN analysis_results[1] # {}
    /\ Len(sent[1]) = 1
    /\ "error" \in DOMAIN retval[1]

(***************************************************************************)
(* Concurrent runs                                                         *)
(***************************************************************************)
RECURSIVE Collected(_, _)
\* what run r has collected from its own first n invocations and answers
Collected(r, n) ==
    IF n = 0 THEN EmptyDict
    ELSE store_result(Collected(r, n - 1), sent[r][n].name, answers[r][n])

C26_RunTerminates == <>(mpc = "exited")

====
